---------------------------- MODULE Spec2Model ----------------------------
(***************************************************************************)
(* A model of beryllium's Renderer (src/renderer.rs): the safe wrapper     *)
(* around SDL2's 2D rendering calls.                                       *)
(*                                                                         *)
(* The state is one renderer instance, the part of the native library's    *)
(* state the wrapper can observe (the current draw colour and the          *)
(* last-error string), the textures created from the renderer that are     *)
(* still in scope, and a record of the most recent wrapper call: its       *)
(* arguments, the native calls it made in order, and what it returned.     *)
(* Every method of impl Renderer is one operator,   written after its      *)
(* source, that maps the arguments and the native call's outcome to        *)
(* the native calls made and the value returned; every action applies one  *)
(* method for every input and every outcome of the native call.            *)
(***************************************************************************)
EXTENDS Integers, Sequences, FiniteSets

VARIABLES
  life,         \* "usable" | "destroyed": the Renderer value's lifecycle
  textures,     \* pointers of the Textures borrowed from the renderer, in scope
  destroyCount, \* how many times SDL_DestroyRenderer was called
  drawColor,    \* native state: the renderer's current draw colour
  lastError,    \* native state: the last-error string
  op,           \* the most recent wrapper call and its arguments
  calls,        \* the native calls it made, in order
  result,       \* what it returned
  lastSet,      \* <<c>>: c was set by a successful set_draw_color and nothing
                \* but draw_color ran since; <<>> otherwise
  frame         \* "fresh" | "erred" | "presented" | "cleared" (see NextFrame)

vars == <<life, textures, destroyCount, drawColor, lastError, op, calls,
          result, lastSet, frame>>

---------------------------------------------------------------------------
(* Bounds and input domains.                                               *)

\* core::i32::MAX
I32_MAX == 2147483647

\* A slice length (usize) is the pair (hi, lo) standing for hi * 2^31 + lo,
\* with 0 <= lo <= I32_MAX: lengths beyond 2^31 - 1 stay representable.
MaxLenHi == 2
\* lo ranges over the NearEdge + 1 smallest and the NearEdge + 1 largest values.
NearEdge == 1

NULL == 0
\* self.ptr, fixed by the constructor (Window::create_renderer).
RenPtr == 1

LenLo == (0 .. NearEdge) \cup {I32_MAX - k : k \in 0 .. NearEdge}
Lens == [hi : 0 .. MaxLenHi, lo : LenLo]
\* The slices drawn: one of every length, and a second one of each of the
\* shortest lengths at another address.
Slices == [ptr : {64}, len : Lens] \cup [ptr : {128}, len : [hi : {0}, lo : 0 .. NearEdge]]

\* u8 channels: the colours with at most one channel at its maximum tell the
\* four channels apart.
ChanVals == {0, 255}
Colors == {c \in [r : ChanVals, g : ChanVals, b : ChanVals, a : ChanVals] :
             Cardinality({f \in {"r", "g", "b", "a"} : c[f] = 255}) <= 1}
DefaultColor == [r |-> 0, g |-> 0, b |-> 0, a |-> 0]

Rects == {[x |-> 0, y |-> 0, w |-> 1, h |-> 1], [x |-> 2, y |-> 3, w |-> 4, h |-> 5]}
\* Option<Rect>: <<>> is None, <<r>> is Some(r).
OptRects == {<<>>} \cup {<<r>> : r \in Rects}

\* The segments drawn: <<x1, y1, x2, y2>>.
Segments == {<<0, 0, 7, -1>>, <<-1, 7, 0, 0>>}
SurfPtrs == {32}
\* The texture pointers the native library hands out.
TexPtrs == {16, 48}

\* What the native library may leave in its last-error string.
Msgs == {"Invalid renderer", "Out of memory"}
\* The status a native call returns: 0 is success.
Statuses == {0, -1}

---------------------------------------------------------------------------
(* Values crossing the wrapper's boundary.                                 *)

\* One native call: the function, its arguments, and what it returned.
Call(fn, args, ret) == [fn |-> fn, args |-> args, ret |-> ret]

\* Result<T, String>: the error of every method is a plain String.
Ok(v) == [tag |-> "Ok", val |-> v]
Err(text) == [tag |-> "Err", val |-> [type |-> "String", text |-> text]]
\* The value of a call that returns nothing (present, a drop).
Unit == [tag |-> "Unit", val |-> <<>>]

\* get_error(): one SDL_GetError call; le is the string current at the call.
get_error(le) == [call |-> Call("SDL_GetError", <<>>, le), text |-> le]

\* What a method did: the native calls in order, and the value returned.
Did(cs, r) == [calls |-> cs, ret |-> r]

\* if out == 0 { Ok(v) } else { Err(get_error()) }, after the native call c.
StatusResult(c, out, v, le) ==
  IF out = 0
    THEN Did(<<c>>, Ok(v))
    ELSE LET e == get_error(le) IN Did(<<c, e.call>>, Err(e.text))

---------------------------------------------------------------------------
(* usize lengths and the cast to i32.                                      *)

\* a > b on lengths
LenGt(a, b) == a.hi > b.hi \/ (a.hi = b.hi /\ a.lo > b.lo)

\* core::i32::MAX as usize
I32MaxAsUsize == [hi |-> 0, lo |-> I32_MAX]

\* Variant: the length is compared with u32::MAX (2^32 - 1) instead.
LenExceedsU32(len) == len.hi > 1

\* Variant: >= in place of >.
LenExceedsGe(len) == ~LenGt(I32MaxAsUsize, len)

\* points.len() > core::i32::MAX as usize
LenExceeds(len) == LenGt(len, I32MaxAsUsize)

\* len as i32: the low 32 bits, read as two's complement. Bit 31 of the
\* length is the parity of hi.
AsI32(len) == IF len.hi % 2 = 1 THEN len.lo - I32_MAX - 1 ELSE len.lo

\* points.as_ptr()
as_ptr(points) == points.ptr

\* The static message of draw_lines; the source's backquotes around i32::MAX
\* are written as apostrophes (a TLA+ string cannot hold a backquote).
LenErrMsg == "beryllium error: len cannot exceed 'i32::MAX'."

---------------------------------------------------------------------------
(* The rectangle arguments of copy.                                        *)

\* Where the parameters src and dst of copy live while it runs.
SrcAddr == 8
DstAddr == 16

\* Option<Rect>::as_ref() of the option stored at addr: Option<&Rect>.
as_ref(opt, addr) == IF opt = <<>> THEN <<>> ELSE <<addr>>

\* transmute::<Option<&Rect>, *const SDL_Rect>: None is the null pointer,
\* Some(&r) is the address of r.
transmute(optref) == IF optref = <<>> THEN NULL ELSE optref[1]

\* The rectangles the native call can read through the pointers it is given.
RectMem(src, dst) ==
  [a \in {x \in {SrcAddr} : src # <<>>} \cup {x \in {DstAddr} : dst # <<>>} |->
     IF a = SrcAddr THEN src[1] ELSE dst[1]]

\* Variant: the two rectangle pointers are passed in each other's place.
CopyArgsSwapped(self, t, src, dst) ==
  [renderer |-> self, texture |-> t,
   srcrect |-> transmute(as_ref(dst, DstAddr)),
   dstrect |-> transmute(as_ref(src, SrcAddr)),
   mem |-> RectMem(src, dst)]

\* SDL_RenderCopy(self.ptr, t.ptr, src_ptr, dst_ptr)
CopyArgs(self, t, src, dst) ==
  [renderer |-> self, texture |-> t,
   srcrect |-> transmute(as_ref(src, SrcAddr)),
   dstrect |-> transmute(as_ref(dst, DstAddr)),
   mem |-> RectMem(src, dst)]

\* Variant: the channels are passed in the order b, g, r, a.
SetColorArgsBgra(self, color) ==
  [renderer |-> self, r |-> color.b, g |-> color.g, b |-> color.r, a |-> color.a]

\* SDL_SetRenderDrawColor(self.ptr, color.r, color.g, color.b, color.a)
SetColorArgs(self, color) ==
  [renderer |-> self, r |-> color.r, g |-> color.g, b |-> color.b, a |-> color.a]

---------------------------------------------------------------------------
(* The methods of Renderer. self is self.ptr; out (or ptr) is what the     *)
(* native call returns and le the last-error string after it.              *)

\* Variant: the null check is missing.
create_texture_from_surface_unchecked(self, surf, ptr, le) ==
  Did(<<Call("SDL_CreateTextureFromSurface", [renderer |-> self, surface |-> surf], ptr)>>,
      Ok([ptr |-> ptr]))

create_texture_from_surface(self, surf, ptr, le) ==
  LET c == Call("SDL_CreateTextureFromSurface", [renderer |-> self, surface |-> surf], ptr)
  IN IF ptr = NULL
       THEN LET e == get_error(le) IN Did(<<c, e.call>>, Err(e.text))
       ELSE Did(<<c>>, Ok([ptr |-> ptr]))

\* nat is the colour SDL_GetRenderDrawColor writes through its four
\* out-pointers on success; on failure color keeps Color::default().
draw_color(self, out, nat, le) ==
  LET written == IF out = 0 THEN nat ELSE DefaultColor
      c == Call("SDL_GetRenderDrawColor",
                [renderer |-> self, r |-> "color.r", g |-> "color.g",
                 b |-> "color.b", a |-> "color.a"], out)
      color == [r |-> written.r, g |-> written.g, b |-> written.b, a |-> written.a]
  IN StatusResult(c, out, color, le)

set_draw_color(self, color, out, le) ==
  StatusResult(Call("SDL_SetRenderDrawColor", SetColorArgs(self, color), out), out, <<>>, le)

\* Variant: a failing SDL_RenderClear is tried a second time.
clearRetry(self, out, le) ==
  LET c == Call("SDL_RenderClear", [renderer |-> self], out)
  IN IF out = 0
       THEN Did(<<c>>, Ok(<<>>))
       ELSE LET e == get_error(le) IN Did(<<c, c, e.call>>, Err(e.text))

clear(self, out, le) ==
  StatusResult(Call("SDL_RenderClear", [renderer |-> self], out), out, <<>>, le)

\* Variant: the wrapper remembers that a call has failed and keeps failing.
draw_linePoisoned(self, x1, y1, x2, y2, out, le) ==
  LET c == Call("SDL_RenderDrawLine",
                [renderer |-> self, x1 |-> x1, y1 |-> y1, x2 |-> x2, y2 |-> y2], out)
      e == get_error(le)
  IN IF out = 0 /\ frame = "fresh"
       THEN Did(<<c>>, Ok(<<>>))
       ELSE Did(<<c, e.call>>, Err(e.text))

draw_line(self, x1, y1, x2, y2, out, le) ==
  StatusResult(Call("SDL_RenderDrawLine",
                    [renderer |-> self, x1 |-> x1, y1 |-> y1, x2 |-> x2, y2 |-> y2], out),
               out, <<>>, le)

draw_lines(self, points, out, le) ==
  IF LenExceeds(points.len)
    THEN Did(<<>>, Err(LenErrMsg))
    ELSE LET ptr == as_ptr(points)
             count == AsI32(points.len)
         IN StatusResult(Call("SDL_RenderDrawLines",
                              [renderer |-> self, points |-> ptr, count |-> count], out),
                         out, <<>>, le)

\* Variant: the last-error string is fetched before the native call and the
\* cached string is returned when the call fails.
copyCached(self, t, src, dst, out, le) ==
  LET e == get_error(lastError)
      c == Call("SDL_RenderCopy", CopyArgs(self, t, src, dst), out)
  IN Did(<<e.call, c>>, IF out = 0 THEN Ok(<<>>) ELSE Err(e.text))

copy(self, t, src, dst, out, le) ==
  StatusResult(Call("SDL_RenderCopy", CopyArgs(self, t, src, dst), out), out, <<>>, le)

present(self) ==
  Did(<<Call("SDL_RenderPresent", [renderer |-> self], <<>>)>>, Unit)

\* Drop for Renderer
drop(self) ==
  Did(<<Call("SDL_DestroyRenderer", [renderer |-> self], <<>>)>>, Unit)

\* Drop for Texture (texture.rs): releases the native texture.
drop_texture(t) ==
  Did(<<Call("SDL_DestroyTexture", [texture |-> t], <<>>)>>, Unit)

---------------------------------------------------------------------------
(* The native library, as far as the wrapper observes it.                  *)

\* The draw colour after the calls cs: a successful SDL_SetRenderDrawColor
\* stores the four channels it was passed, nothing else changes the colour.
NativeDrawColor(cs) ==
  LET S == {i \in DOMAIN cs : cs[i].fn = "SDL_SetRenderDrawColor" /\ cs[i].ret = 0}
  IN IF S = {}
       THEN drawColor
       ELSE LET i == CHOOSE j \in S : \A k \in S : k <= j
            IN [r |-> cs[i].args.r, g |-> cs[i].args.g,
                b |-> cs[i].args.b, a |-> cs[i].args.a]

\* How many of the calls cs are SDL_DestroyRenderer.
DestroyCalls(cs) == Cardinality({i \in DOMAIN cs : cs[i].fn = "SDL_DestroyRenderer"})

\* The last-error string after a native call: a failing call sets it, a
\* succeeding one leaves it.
ErrAfter(failed) == IF failed THEN Msgs ELSE {lastError}

---------------------------------------------------------------------------
(* Bookkeeping over the run (history, not state of the program).           *)

\* "fresh": no call has returned an error; "erred": one has; "presented":
\* present ran after that; "cleared": clear ran after that present.
NextFrame(o, r) ==
  CASE o.name = "present" /\ frame \in {"erred", "cleared"} -> "presented"
    [] o.name = "clear" /\ frame = "presented" -> "cleared"
    [] r.tag = "Err" /\ frame = "fresh" -> "erred"
    [] OTHER -> frame

NextLastSet(o, r) ==
  CASE o.name = "set_draw_color" /\ r.tag = "Ok" -> <<o.color>>
    [] o.name = "draw_color" -> lastSet
    [] OTHER -> <<>>

---------------------------------------------------------------------------
(* The state machine.                                                      *)

\* Variant: the handle is a plain copyable pointer, usable after the drop.
UsableAlways == TRUE

\* The renderer can be used: a method takes &self, which the borrow checker
\* grants only while the value is alive.
Usable == life = "usable"

\* Variant: a texture does not borrow the renderer.
BorrowedNever == FALSE

\* A Texture<'sdl, 'win, 'ren> in scope holds the borrow &'ren of the
\* renderer, so the renderer cannot be dropped.
Borrowed == textures # {}

\* The call o did d; le is the last-error string after its native call.
Apply(o, d, le) ==
  /\ op' = o
  /\ calls' = d.calls
  /\ result' = d.ret
  /\ lastError' = IF d.calls = <<>> THEN lastError ELSE le
  /\ drawColor' = NativeDrawColor(d.calls)
  /\ destroyCount' = destroyCount + DestroyCalls(d.calls)
  /\ lastSet' = NextLastSet(o, d.ret)
  /\ frame' = NextFrame(o, d.ret)

Init ==
  /\ life = "usable"
  /\ textures = {}
  /\ destroyCount = 0
  /\ drawColor \in Colors
  /\ lastError = ""
  /\ op = [name |-> "new"]
  /\ calls = <<>>
  /\ result = Unit
  /\ lastSet = <<>>
  /\ frame = "fresh"

CreateTextureFromSurface ==
  /\ Usable
  /\ \E surf \in SurfPtrs, ptr \in {NULL} \cup (TexPtrs \ textures) :
       \E le \in ErrAfter(ptr = NULL) :
         LET d == create_texture_from_surface(RenPtr, surf, ptr, le)
         IN /\ Apply([name |-> "create_texture_from_surface", surf |-> surf], d, le)
            /\ textures' = IF d.ret.tag = "Ok"
                             THEN textures \cup {d.ret.val.ptr}
                             ELSE textures
  /\ life' = life

DrawColor ==
  /\ Usable
  /\ \E out \in Statuses : \E le \in ErrAfter(out # 0) :
       Apply([name |-> "draw_color"], draw_color(RenPtr, out, drawColor, le), le)
  /\ UNCHANGED <<life, textures>>

SetDrawColor ==
  /\ Usable
  /\ \E color \in Colors, out \in Statuses : \E le \in ErrAfter(out # 0) :
       Apply([name |-> "set_draw_color", color |-> color],
             set_draw_color(RenPtr, color, out, le), le)
  /\ UNCHANGED <<life, textures>>

Clear ==
  /\ Usable
  /\ \E out \in Statuses : \E le \in ErrAfter(out # 0) :
       Apply([name |-> "clear"], clear(RenPtr, out, le), le)
  /\ UNCHANGED <<life, textures>>

DrawLine ==
  /\ Usable
  /\ \E s \in Segments, out \in Statuses : \E le \in ErrAfter(out # 0) :
       Apply([name |-> "draw_line", x1 |-> s[1], y1 |-> s[2], x2 |-> s[3], y2 |-> s[4]],
             draw_line(RenPtr, s[1], s[2], s[3], s[4], out, le), le)
  /\ UNCHANGED <<life, textures>>

DrawLines ==
  /\ Usable
  /\ \E points \in Slices, out \in Statuses : \E le \in ErrAfter(out # 0) :
       Apply([name |-> "draw_lines", points |-> points],
             draw_lines(RenPtr, points, out, le), le)
  /\ UNCHANGED <<life, textures>>

Copy ==
  /\ Usable
  /\ \E t \in textures, src \in OptRects, dst \in OptRects, out \in Statuses :
       \E le \in ErrAfter(out # 0) :
         Apply([name |-> "copy", t |-> t, src |-> src, dst |-> dst],
               copy(RenPtr, t, src, dst, out, le), le)
  /\ UNCHANGED <<life, textures>>

Present ==
  /\ Usable
  /\ Apply([name |-> "present"], present(RenPtr), lastError)
  /\ UNCHANGED <<life, textures>>

\* A texture goes out of scope.
DropTexture ==
  /\ \E t \in textures :
       /\ Apply([name |-> "drop_texture", t |-> t], drop_texture(t), lastError)
       /\ textures' = textures \ {t}
  /\ life' = life

\* The renderer goes out of scope, whatever its last call returned.
DropRenderer ==
  /\ life = "usable"
  /\ ~Borrowed
  /\ Apply([name |-> "drop"], drop(RenPtr), lastError)
  /\ life' = "destroyed"
  /\ textures' = textures

Next ==
  \/ CreateTextureFromSurface
  \/ DrawColor
  \/ SetDrawColor
  \/ Clear
  \/ DrawLine
  \/ DrawLines
  \/ Copy
  \/ Present
  \/ DropTexture
  \/ DropRenderer

Spec == Init /\ [][Next]_vars

---------------------------------------------------------------------------
(* Properties.                                                             *)

\* The length hi * 2^31 + lo exceeds 2^31 - 1 exactly when hi is not 0.
ExceedsI32Max(len) == len.hi >= 1

\* The native calls of cs to the function fn.
CallsTo(cs, fn) == {i \in DOMAIN cs : cs[i].fn = fn}

\* The native function each status-returning method forwards to.
NativeOf(name) ==
  CASE name = "draw_color" -> "SDL_GetRenderDrawColor"
    [] name = "set_draw_color" -> "SDL_SetRenderDrawColor"
    [] name = "clear" -> "SDL_RenderClear"
    [] name = "draw_line" -> "SDL_RenderDrawLine"
    [] name = "draw_lines" -> "SDL_RenderDrawLines"
    [] name = "copy" -> "SDL_RenderCopy"

StatusOps == {"draw_color", "set_draw_color", "clear", "draw_line", "draw_lines", "copy"}

\* The native call c signalled failure: a null texture, or a non-zero status.
NativeFailed(c) ==
  \/ c.fn = "SDL_CreateTextureFromSurface" /\ c.ret = NULL
  \/ c.fn \in {NativeOf(n) : n \in StatusOps} /\ c.ret # 0

\* The most recent call returned Err with this text.
ErrIs(text) == result.tag = "Err" /\ result.val.text = text

\* C1: draw_lines on a slice longer than i32::MAX returns the static
\* validation message and makes no native call at all: neither
\* SDL_RenderDrawLines nor the fetch of the last-error string.
C1_TooLongFailsLocally ==
  (op.name = "draw_lines" /\ ExceedsI32Max(op.points.len)) =>
    /\ ErrIs(LenErrMsg)
    /\ Len(calls) = 0

\* A slice of 2^32 points (whose low 32 bits are all zero) was refused.
C1_Witness ==
  /\ op.name = "draw_lines"
  /\ op.points.len = [hi |-> 2, lo |-> 0]
  /\ result.tag = "Err"

\* C2: draw_lines on a slice of n <= i32::MAX points calls
\* SDL_RenderDrawLines exactly once, with count n and with the slice's pointer.
C2_ForwardsCountAndPointer ==
  (op.name = "draw_lines" /\ ~ExceedsI32Max(op.points.len)) =>
    /\ Cardinality(CallsTo(calls, "SDL_RenderDrawLines")) = 1
    /\ calls[1].fn = "SDL_RenderDrawLines"
    /\ calls[1].args.count = op.points.len.lo
    /\ calls[1].args.points = op.points.ptr
    /\ calls[1].args.renderer = RenPtr

\* A slice of exactly i32::MAX points was forwarded.
C2_Witness ==
  /\ op.name = "draw_lines"
  /\ op.points.len = [hi |-> 0, lo |-> I32_MAX]
  /\ Len(calls) = 1
  /\ calls[1].args.count = I32_MAX

\* C3: a draw_color that succeeds after a successful set_draw_color(c), with
\* nothing but draw_color in between, returns c in all four channels.
C3_ColorRoundTrip ==
  (op.name = "draw_color" /\ result.tag = "Ok" /\ lastSet # <<>>) =>
    result.val = lastSet[1]

\* A colour with a non-zero channel was set and read back.
C3_Witness ==
  /\ op.name = "draw_color"
  /\ result.tag = "Ok"
  /\ lastSet # <<>>
  /\ lastSet[1].r = 255

\* The native call was given, for the option opt, the pointer ptr into mem:
\* null for None, the address of a rectangle equal to r for Some(r).
Forwarded(opt, ptr, mem) ==
  IF opt = <<>>
    THEN ptr = NULL
    ELSE ptr # NULL /\ ptr \in DOMAIN mem /\ mem[ptr] = opt[1]

\* C4: copy passes src as the source and dst as the destination rectangle of
\* SDL_RenderCopy, each null for None and a rectangle equal to r for Some(r).
C4_CopyForwardsRects ==
  op.name = "copy" =>
    /\ calls[1].fn = "SDL_RenderCopy"
    /\ calls[1].args.texture = op.t
    /\ Forwarded(op.src, calls[1].args.srcrect, calls[1].args.mem)
    /\ Forwarded(op.dst, calls[1].args.dstrect, calls[1].args.mem)

\* A copy of the whole texture into a given destination rectangle.
C4_Witness ==
  /\ op.name = "copy"
  /\ op.src = <<>>
  /\ op.dst # <<>>
  /\ calls[1].args.srcrect = NULL
  /\ calls[1].args.dstrect # NULL

\* C5: SDL_DestroyRenderer has been called once when the renderer is
\* destroyed and never before, and no texture of the renderer is in scope
\* once it has been called.
C5_DestroyedOnceAfterTextures ==
  /\ destroyCount = (IF life = "destroyed" THEN 1 ELSE 0)
  /\ destroyCount > 0 => textures = {}

\* The renderer was destroyed after one of its calls had returned an error.
C5_Witness ==
  /\ life = "destroyed"
  /\ destroyCount = 1
  /\ frame # "fresh"

\* C6: a native call that signals failure is followed at once by the fetch
\* of the last-error string, and the error returned carries the string that
\* was current at that fetch.
C6_ErrorFetchedAtOnce ==
  \A i \in DOMAIN calls :
    NativeFailed(calls[i]) =>
      /\ i + 1 \in DOMAIN calls
      /\ calls[i + 1].fn = "SDL_GetError"
      /\ ErrIs(calls[i + 1].ret)
      /\ calls[i + 1].ret = lastError

\* A copy failed and the fetch of the last-error string followed it.
C6_Witness ==
  /\ op.name = "copy"
  /\ Len(calls) = 2
  /\ NativeFailed(calls[1])
  /\ result.tag = "Err"

\* C7 as stated: the error of create_texture_from_surface is
\* ErrorKind::Native(message).
C7_ErrorIsErrorKindNative ==
  (op.name = "create_texture_from_surface" /\ calls[1].ret = NULL) =>
    /\ result.tag = "Err"
    /\ result.val = [type |-> "ErrorKind::Native", text |-> lastError]

\* C7, amended: create_texture_from_surface returns Err(message), a plain
\* String holding the last-error string fetched right after the call, when
\* the native call returns null, and otherwise Ok of a texture wrapping
\* exactly the pointer returned.
C7_CreateTexture ==
  op.name = "create_texture_from_surface" =>
    /\ calls[1].fn = "SDL_CreateTextureFromSurface"
    /\ IF calls[1].ret = NULL
         THEN /\ result.tag = "Err"
              /\ result.val = [type |-> "String", text |-> lastError]
              /\ Len(calls) = 2
              /\ calls[2] = Call("SDL_GetError", <<>>, lastError)
         ELSE /\ result.tag = "Ok"
              /\ result.val.ptr = calls[1].ret
              /\ Len(calls) = 1

\* A texture creation failed for lack of memory.
C7_Witness ==
  /\ op.name = "create_texture_from_surface"
  /\ result.tag = "Err"
  /\ result.val.text = "Out of memory"

\* The contract of a drawing call in a fresh render pass: the outcome is
\* decided by the call's own arguments and the status of its own native call.
FreshContract ==
  IF op.name = "draw_lines" /\ ExceedsI32Max(op.points.len)
    THEN ErrIs(LenErrMsg)
    ELSE /\ calls[1].fn = NativeOf(op.name)
         /\ (result.tag = "Ok") <=> (calls[1].ret = 0)
         /\ (result.tag # "Ok") => ErrIs(lastError)

\* C8: once present has run after a call returned an error, clear and the
\* drawing calls still follow the contract of a fresh render pass.
C8_NoResidualError ==
  (frame \in {"presented", "cleared"} /\ op.name \in {"clear", "draw_line", "draw_lines", "copy"})
    => FreshContract

\* After an error, a present and a clear, a line was drawn successfully.
C8_Witness ==
  /\ frame = "cleared"
  /\ op.name = "draw_line"
  /\ result.tag = "Ok"

\* C9: a status-returning method makes exactly one call of its native
\* function, returns Ok exactly when the status is zero, and fetches the
\* last-error string, once, exactly when it is not.
C9_OneCallNoRetry ==
  (op.name \in StatusOps /\ ~(op.name = "draw_lines" /\ ExceedsI32Max(op.points.len))) =>
    /\ Cardinality(CallsTo(calls, NativeOf(op.name))) = 1
    /\ calls[1].fn = NativeOf(op.name)
    /\ result.tag \in {"Ok", "Err"}
    /\ (result.tag = "Ok") <=> (calls[1].ret = 0)
    /\ calls[1].ret = 0 => Len(calls) = 1
    /\ calls[1].ret # 0 =>
         /\ Len(calls) = 2
         /\ calls[2].fn = "SDL_GetError"
         /\ ErrIs(calls[2].ret)

\* A clear failed: one SDL_RenderClear, one fetch, an error returned.
C9_Witness ==
  /\ op.name = "clear"
  /\ result.tag = "Err"
  /\ Len(calls) = 2

\* C10: every step is taken by a usable renderer and leaves it usable,
\* except the drop, which destroys it: nothing happens to a destroyed
\* renderer, and no call on a renderer changes its lifecycle state.
C10_Lifecycle ==
  [][/\ life = "usable"
     /\ op'.name # "drop" => life' = "usable"
     /\ op'.name = "drop" => life' = "destroyed" /\ calls'[1].fn = "SDL_DestroyRenderer"]_vars

\* The renderer was destroyed after a native call had failed on it.
C10_Witness ==
  /\ life = "destroyed"
  /\ op.name = "drop"
  /\ lastError # ""

=============================================================================
